---- MODULE Spec2Model ----
(***************************************************************************)
(* The natural-language-to-SQL workflow of the database agent:            *)
(* src/src/dev/agent/sql_agent.py (graph wiring, ask, approve_sql),       *)
(* src/src/dev/node/sql_agent_node.py (the eight nodes and the routers),  *)
(* src/src/dev/utils/sql_executor.py (validator, executor, approval       *)
(* queue) and src/src/dev/state/graph_state.py (DatabaseGraphState).      *)
(*                                                                         *)
(* Texts are sequences of tokens; `kw in text` and the regular            *)
(* expressions of the source are evaluated on the tokens after the same   *)
(* case conversion the source applies.  The language model and the        *)
(* database are the environment: every call to them may fail or return    *)
(* any statement of Statements.  The module-level helpers of              *)
(* sql_agent_node.py keep a leading `self` parameter; their calls are     *)
(* modelled as binding the arguments to the remaining parameters, and     *)
(* the engine handle the nodes read from the state is supplied by the     *)
(* environment.                                                            *)
(***************************************************************************)
EXTENDS Integers, Sequences, FiniteSets, TLC

\* ------------------------------------------------------------------ bounds
\* Longest approval queue of the agent's executor
MaxQueue == 2

\* "max_retries": 3 of the initial state built by ask
MaxRetries == 3

\* Thread ids
Sessions == {"s1", "s2"}

\* str.upper() on one token
UpperTok(t) ==
    CASE t = "select" -> "SELECT"
      [] t = "insert" -> "INSERT"
      [] t = "update" -> "UPDATE"
      [] t = "delete" -> "DELETE"
      [] t = "from"   -> "FROM"
      [] t = "set"    -> "SET"
      [] t = "where"  -> "WHERE"
      [] t = "limit"  -> "LIMIT"
      [] OTHER        -> t

\* str.lower() on one token
LowerTok(t) ==
    CASE t = "UPDATE" -> "update"
      [] t = "DELETE" -> "delete"
      [] t = "SELECT" -> "select"
      [] t = "INSERT" -> "insert"
      [] OTHER        -> t

Upper(text) == [i \in DOMAIN text |-> UpperTok(text[i])]
Lower(text) == [i \in DOMAIN text |-> LowerTok(text[i])]

\* The keywords of parse_user_intent that occur inside one (lower-cased) word
KeywordsIn(w) ==
    CASE w = "zh_biaojiegou"  -> {"zh_biaojiegou", "zh_jiegou", "zh_biao"}
      [] w = "zh_yonghubiao"  -> {"zh_biao"}
      [] w = "address" -> {"add"}
      [] OTHER         -> {w}

\* `kw in text` for a keyword kw
Contains(text, kw) == \E i \in DOMAIN text : kw \in KeywordsIn(text[i])
ContainsAny(text, kws) == \E kw \in kws : Contains(text, kw)

\* `"KW" in sql_upper`
HasWord(sqlUpper, kw) == \E i \in DOMAIN sqlUpper : sqlUpper[i] = kw

\* ------------------------------------------------------- candidate statements
EmptySQL == <<>>
S_select == <<"SELECT", "*", "FROM", "users", ";">>
S_insert == <<"INSERT", "INTO", "users", "VALUES", "(1)", ";">>
S_insert_select == <<"insert", "into", "archive", "select", "*", "from", "users", ";">>
S_delete_drop == <<"DELETE", "FROM", "users", ";", "DROP", "TABLE", "users", ";">>
S_select_limit == <<"SELECT", "*", "FROM", "users", "LIMIT", "5000", ";">>
S_create == <<"CREATE", "TABLE", "audit", "(id int)", ";">>
S_drop == <<"DROP", "TABLE", "users", ";">>
\* An empty reply of the model after clean_generated_sql
S_blank == <<";">>

\* What the language model may return (after clean_generated_sql)
Statements ==
    {S_select, S_select_limit, S_insert, S_insert_select, S_delete_drop, S_create, S_drop,
     S_blank}

\* Stands for a call of the language model that raised
LLMFailed == <<"<model call failed>">>
LLMOutcomes == Statements \cup {LLMFailed}

\* ------------------------------------------------------------- user inputs
NoInput == <<>>
I_add == <<"zh_xiang", "zh_yonghubiao", "zh_tianjia", "zh_yitiao", "zh_xinjilu">>
I_query_delete == <<"zh_chaxun", "zh_guoqi", "zh_dingdan", "zh_bing", "DELETE">>
I_describe == <<"zh_xianshi", "zh_yonghubiao", "zh_de", "zh_jiegou">>

Inputs == {I_add, I_query_delete, I_describe}

\* ------------------------------------------------------------ parse_user_intent
\* Chinese words are written in pinyin with the prefix zh_ (zh_chaxun is the
\* query word U+67E5 U+8BE2, zh_shanchu the delete word U+5220 U+9664, ...).
QueryWords == {"zh_chaxun", "zh_chazhao", "zh_huoqu", "select", "find"}
InsertWords == {"zh_tianjia", "zh_charu", "insert", "add"}
UpdateWords == {"zh_gengxin", "zh_xiugai", "update", "modify"}
DeleteWords == {"zh_shanchu", "delete", "remove"}
DescribeWords == {"zh_biaojiegou", "schema", "zh_jiegou", "describe"}
ExplainWords == {"zh_jieshi", "zh_fenxi", "explain", "analyze"}
ComplexWords == {"zh_fuza", "zh_guanlian", "join", "zh_tongji", "zh_huizong"}
SimpleWords == {"zh_jiandan", "zh_jiben", "zh_danbiao"}

IntentAction(u) ==
    IF ContainsAny(u, QueryWords) THEN "query"
    ELSE IF ContainsAny(u, InsertWords) THEN "modify"
    ELSE IF ContainsAny(u, UpdateWords) THEN "modify"
    ELSE IF ContainsAny(u, DeleteWords) THEN "modify"
    ELSE IF ContainsAny(u, DescribeWords) THEN "describe"
    ELSE IF ContainsAny(u, ExplainWords) THEN "explain"
    ELSE "query"

\* Whether the branch taken stores intent["requires_human_approval"] = True
IntentRequiresApproval(u) ==
    /\ ~ContainsAny(u, QueryWords)
    /\ ContainsAny(u, InsertWords \cup UpdateWords \cup DeleteWords)

IntentComplexity(u) ==
    IF ContainsAny(u, ComplexWords) THEN "complex"
    ELSE IF ContainsAny(u, SimpleWords) THEN "simple"
    ELSE "moderate"

\* The intent dictionary built from state.user_input.lower(); the table list
\* only selects the tables whose metadata is read and is left out
ParseIntent(userInput) ==
    LET u == Lower(userInput) IN
    [action |-> IntentAction(u),
     target |-> IF IntentAction(u) = "describe" THEN "schema" ELSE "data",
     complexity |-> IntentComplexity(u),
     requires_human_approval |-> IntentRequiresApproval(u)]

NoIntent == [action |-> "none", target |-> "none", complexity |-> "none",
             requires_human_approval |-> FALSE]

\* ---------------------------------------------------------------- validator
\* detect_sql_type of the generation step: first keyword found, in this order
detect_sql_type(sql) ==
    LET up == Upper(sql) IN
    IF HasWord(up, "SELECT") THEN "SELECT"
    ELSE IF HasWord(up, "INSERT") THEN "INSERT"
    ELSE IF HasWord(up, "UPDATE") THEN "UPDATE"
    ELSE IF HasWord(up, "DELETE") THEN "DELETE"
    ELSE IF HasWord(up, "CREATE") \/ HasWord(up, "ALTER") \/ HasWord(up, "DROP") THEN "DDL"
    ELSE "OTHER"

\* detected_type of validate_sql: the same chain without the DDL branch
DetectedType(sql) ==
    LET up == Upper(sql) IN
    IF HasWord(up, "SELECT") THEN "SELECT"
    ELSE IF HasWord(up, "INSERT") THEN "INSERT"
    ELSE IF HasWord(up, "UPDATE") THEN "UPDATE"
    ELSE IF HasWord(up, "DELETE") THEN "DELETE"
    ELSE "OTHER"

\* a, then b as the next word
Adjacent(up, a, bs) ==
    \E i \in DOMAIN up : i + 1 \in DOMAIN up /\ up[i] = a /\ up[i + 1] \in bs
\* a, b as the next word, and c anywhere after
AdjacentThen(up, a, b, c) ==
    \E i \in DOMAIN up : /\ i + 1 \in DOMAIN up /\ up[i] = a /\ up[i + 1] = b
                         /\ \E j \in DOMAIN up : j > i + 1 /\ up[j] = c
\* a, and b anywhere after
Then(up, a, b) ==
    \E i \in DOMAIN up : up[i] = a /\ \E j \in DOMAIN up : j > i /\ up[j] = b

dangerous_patterns ==
    <<"DROP (TABLE|DATABASE|INDEX)", "TRUNCATE TABLE", "ALTER TABLE.*DROP",
      "GRANT .*TO", "REVOKE .*FROM", "; --", "UNION SELECT.*FROM">>

\* re.search(pattern, sql, re.IGNORECASE)
PatternMatches(p, sql) ==
    LET up == Upper(sql) IN
    CASE p = "DROP (TABLE|DATABASE|INDEX)" -> Adjacent(up, "DROP", {"TABLE", "DATABASE", "INDEX"})
      [] p = "TRUNCATE TABLE"     -> Adjacent(up, "TRUNCATE", {"TABLE"})
      [] p = "ALTER TABLE.*DROP"  -> AdjacentThen(up, "ALTER", "TABLE", "DROP")
      [] p = "GRANT .*TO"         -> Then(up, "GRANT", "TO")
      [] p = "REVOKE .*FROM"      -> Then(up, "REVOKE", "FROM")
      [] p = "; --"               -> Adjacent(up, ";", {"--"})
      [] p = "UNION SELECT.*FROM" -> AdjacentThen(up, "UNION", "SELECT", "FROM")

\* _check_sql_security: one issue per matching pattern, in pattern order
check_sql_security(sql) ==
    SelectSeq(dangerous_patterns, LAMBDA p : PatternMatches(p, sql))

Min(a, b) == IF a < b THEN a ELSE b

\* Rows of the plan EXPLAIN returns
PlanRows == 60

\* _estimate_execution_cost; explainOk: the EXPLAIN of the estimate returned
estimate_execution_cost(sql, explainOk) ==
    IF ~explainOk THEN 50
    ELSE LET cost == PlanRows * 10 IN
         Min(IF HasWord(Upper(sql), "WHERE") THEN cost ELSE cost * 2, 1000)

NoValidation ==
    [kind |-> "empty", is_valid |-> FALSE, errors |-> <<>>, warnings |-> <<>>,
     estimated_cost |-> 0, requires_human_approval |-> FALSE]

\* validate_sql with DELETE missing from the list of kinds that need approval
validate_sql_without_delete(sql, sql_type, probeOk) ==
    IF sql = EmptySQL
    THEN [NoValidation EXCEPT !.kind = "result", !.errors = <<"empty sql">>]
    ELSE
      LET detected_type == DetectedType(sql)
          warn1 == IF sql_type # "" /\ sql_type # detected_type
                   THEN <<"type mismatch">> ELSE <<>>
          errs == check_sql_security(sql)
                  \o (IF probeOk THEN <<>> ELSE <<"syntax error">>)
          dml == detected_type \in {"INSERT", "UPDATE"}
      IN [kind |-> "result",
          is_valid |-> (errs = <<>>),
          errors |-> errs,
          warnings |-> warn1 \o (IF dml THEN <<"DML needs approval">> ELSE <<>>),
          estimated_cost |-> estimate_execution_cost(sql, probeOk),
          requires_human_approval |-> dml]

\* validate_sql marking the statement valid as soon as the probe passed
validate_sql_probe_only(sql, sql_type, probeOk) ==
    IF sql = EmptySQL
    THEN [NoValidation EXCEPT !.kind = "result", !.errors = <<"empty sql">>]
    ELSE
      LET detected_type == DetectedType(sql)
          warn1 == IF sql_type # "" /\ sql_type # detected_type
                   THEN <<"type mismatch">> ELSE <<>>
          errs == check_sql_security(sql)
                  \o (IF probeOk THEN <<>> ELSE <<"syntax error">>)
          dml == detected_type \in {"INSERT", "UPDATE", "DELETE"}
      IN [kind |-> "result",
          is_valid |-> probeOk,
          errors |-> errs,
          warnings |-> warn1 \o (IF dml THEN <<"DML needs approval">> ELSE <<>>),
          estimated_cost |-> estimate_execution_cost(sql, probeOk),
          requires_human_approval |-> dml]

\* SQLExecutor.validate_sql; probeOk is the outcome of the EXPLAIN / PREPARE
\* probe, and the EXPLAIN of the cost estimate is taken to fail with it
validate_sql(sql, sql_type, probeOk) ==
    IF sql = EmptySQL
    THEN [NoValidation EXCEPT !.kind = "result", !.errors = <<"empty sql">>]
    ELSE
      LET detected_type == DetectedType(sql)
          warn1 == IF sql_type # "" /\ sql_type # detected_type
                   THEN <<"type mismatch">> ELSE <<>>
          errs == check_sql_security(sql)
                  \o (IF probeOk THEN <<>> ELSE <<"syntax error">>)
          dml == detected_type \in {"INSERT", "UPDATE", "DELETE"}
      IN [kind |-> "result",
          is_valid |-> (errs = <<>>),
          errors |-> errs,
          warnings |-> warn1 \o (IF dml THEN <<"DML needs approval">> ELSE <<>>),
          estimated_cost |-> estimate_execution_cost(sql, probeOk),
          requires_human_approval |-> dml]

\* ----------------------------------------------------------------- executor
\* limit=1000, the ceiling execute_sql_query passes to execute_sql
RowCeiling == 1000

\* Rows of the largest table of the database
BigTable == 5000

\* What a table may hold: nothing, or more rows than the ceiling
TableSizes == {0, BigTable}

\* The statement execute_sql hands to the connection
ExecutedText(sql) ==
    LET up == Upper(sql) IN
    IF HasWord(up, "SELECT") /\ ~HasWord(up, "LIMIT")
    THEN sql \o <<"LIMIT", "1000">> ELSE sql

\* The number a LIMIT clause of the statements names
LimitValue(tok) == IF tok = "1000" THEN RowCeiling ELSE IF tok = "5000" THEN 5000 ELSE -1

\* db_result.fetchall(): every row the engine returns for the text, which is
\* what the table holds cut by the LIMIT clause of the text, if it has one
FetchAll(text, tableRows) ==
    LET up == Upper(text)
        at == {i \in 1 .. Len(up) - 1 : up[i] = "LIMIT" /\ LimitValue(up[i + 1]) >= 0}
    IN IF ~HasWord(up, "SELECT") THEN 0
       ELSE IF at = {} THEN tableRows
       ELSE Min(tableRows, LimitValue(up[(CHOOSE i \in at : TRUE) + 1]))

NoExecution == [kind |-> "none", success |-> FALSE, error |-> "", row_count |-> 0]

\* execute_sql with result["success"] = True set before the database call
execute_sql_flag_first(sql, dbOk, tableRows) ==
    IF dbOk THEN [kind |-> "result", success |-> TRUE, error |-> "",
                  row_count |-> FetchAll(ExecutedText(sql), tableRows)]
    ELSE [kind |-> "result", success |-> TRUE, error |-> "engine error", row_count |-> 0]

\* SQLExecutor.execute_sql; dbOk is the outcome of the database call and
\* tableRows what the table read holds
execute_sql(sql, dbOk, tableRows) ==
    IF dbOk THEN [kind |-> "result", success |-> TRUE, error |-> "",
                  row_count |-> FetchAll(ExecutedText(sql), tableRows)]
    ELSE [kind |-> "result", success |-> FALSE, error |-> "engine error", row_count |-> 0]

\* ------------------------------------------------------- DatabaseGraphState
NoAnswer == [kind |-> "", ticket |-> -1, stats |-> 0]

\* The defaults of the dataclass
DefaultState(sid) ==
    [user_input |-> NoInput,
     session_id |-> sid,
     sql_type |-> "",
     sql_validation_result |-> NoValidation,
     sql_execution_result |-> NoExecution,
     sql_error |-> "",
     requires_human_approval |-> FALSE,
     human_approved |-> FALSE,
     retry_count |-> 0,
     max_retries |-> MaxRetries,
     parsed_intent |-> NoIntent,
     generated_sql |-> EmptySQL,
     final_answer |-> NoAnswer]

\* --------------------------------------------------------------------- nodes
\* node 1
parse_user_intent(state) ==
    [state EXCEPT !.parsed_intent = ParseIntent(state.user_input)]

\* node 2; metaOk: get_table_metadata returned.  db_metadata only feeds the
\* prompts and is left out of the state
analyze_database_schema(state, metaOk) ==
    IF ~metaOk THEN state
    ELSE [state EXCEPT
            !.final_answer = IF state.parsed_intent.action = "describe"
                             THEN [NoAnswer EXCEPT !.kind = "schema summary"]
                             ELSE @]

\* generate_sql_query without the early return for a describe intent
generate_sql_query_always(state, llm) ==
    IF llm = LLMFailed THEN [state EXCEPT !.sql_error = "generation failed"]
    ELSE [state EXCEPT !.generated_sql = llm, !.sql_type = detect_sql_type(llm)]

\* node 3; llm is the cleaned statement the model returned, or LLMFailed
generate_sql_query(state, llm) ==
    IF state.parsed_intent.action = "describe" THEN state
    ELSE IF llm = LLMFailed THEN [state EXCEPT !.sql_error = "generation failed"]
    ELSE [state EXCEPT !.generated_sql = llm, !.sql_type = detect_sql_type(llm)]

\* What the probe of validate_sql may do.  validate_sql catches every
\* exception itself, so the except branch of node 4 is never entered
ValidationOutcomes == {"probe failed", "probe passed"}

\* validate_sql_statement withdrawing an approval when it validates
validate_sql_statement_resetting(state, outcome) ==
    IF state.generated_sql = EmptySQL THEN state
    ELSE LET validation_result ==
                 validate_sql(state.generated_sql, state.sql_type, outcome = "probe passed")
         IN [state EXCEPT
               !.sql_validation_result = validation_result,
               !.requires_human_approval = validation_result.requires_human_approval,
               !.human_approved = FALSE]

\* validate_sql_statement keeping the validation result it already has
validate_sql_statement_once(state, outcome) ==
    IF state.generated_sql = EmptySQL THEN state
    ELSE IF state.sql_validation_result.kind # "empty" THEN state
    ELSE LET validation_result ==
                 validate_sql(state.generated_sql, state.sql_type, outcome = "probe passed")
         IN [state EXCEPT
               !.sql_validation_result = validation_result,
               !.requires_human_approval = validation_result.requires_human_approval]

\* node 4
validate_sql_statement(state, outcome) ==
    IF state.generated_sql = EmptySQL THEN state
    ELSE LET validation_result ==
                 validate_sql(state.generated_sql, state.sql_type, outcome = "probe passed")
         IN [state EXCEPT
               !.sql_validation_result = validation_result,
               !.requires_human_approval = validation_result.requires_human_approval]

\* The item add_to_approval_queue appends: a deep copy of the state
ApprovalItem(sql, state) ==
    [sql |-> sql, state |-> state, session_id |-> state.session_id]

\* SQLExecutor.add_to_approval_queue on the queue of one executor: the queue
\* after the call and the index it returns
add_to_approval_queue(executorQueue, sql, state) ==
    LET q == Append(executorQueue, ApprovalItem(sql, state))
    IN [queue |-> q, index |-> Len(q) - 1]

\* node 5: the ticket goes to the queue of the SQLExecutor the node constructs
\* (a new executor, whose queue starts empty); only the answer is kept
check_human_approval(state) ==
    IF state.requires_human_approval /\ ~state.human_approved
    THEN LET added == add_to_approval_queue(<<>>, state.generated_sql, state)
         IN [state EXCEPT !.final_answer =
                [kind |-> "waiting for approval", ticket |-> added.index, stats |-> 0]]
    ELSE state

\* Whether node 6 reaches the call of SQLExecutor.execute_sql
ExecutorInvoked(state) ==
    /\ state.generated_sql # EmptySQL
    /\ ~(state.requires_human_approval /\ ~state.human_approved)

\* node 6
execute_sql_query(state, dbOk, tableRows) ==
    IF ~ExecutorInvoked(state) THEN state
    ELSE LET execution_result == execute_sql(state.generated_sql, dbOk, tableRows)
         IN IF execution_result.success
            THEN [state EXCEPT !.sql_execution_result = execution_result,
                               !.final_answer = [NoAnswer EXCEPT !.kind = "result"]]
            ELSE [state EXCEPT !.sql_execution_result = execution_result,
                               !.sql_error = execution_result.error]

\* The condition of should_retry_sql and of self_correction_loop
HasError(state) ==
    \/ state.sql_error # ""
    \/ /\ state.sql_validation_result.kind # "empty"
       /\ ~state.sql_validation_result.is_valid

\* self_correction_loop counting one retry for each collected error message
self_correction_loop_per_message(state, llm) ==
    IF state.retry_count >= state.max_retries THEN state
    ELSE IF ~HasError(state) THEN state
    ELSE LET corrected_sql == IF llm = LLMFailed THEN state.generated_sql ELSE llm
             error_messages ==
               (IF state.sql_error # "" THEN <<state.sql_error>> ELSE <<>>)
               \o state.sql_validation_result.errors
         IN IF corrected_sql # EmptySQL /\ corrected_sql # state.generated_sql
            THEN [state EXCEPT !.retry_count = @ + Len(error_messages),
                               !.generated_sql = corrected_sql,
                               !.sql_error = ""]
            ELSE [state EXCEPT !.retry_count = @ + Len(error_messages)]

\* node 7; llm is the cleaned statement the model returned, or LLMFailed
\* (correct_sql_with_errors then returns the original statement)
self_correction_loop(state, llm) ==
    IF state.retry_count >= state.max_retries THEN state
    ELSE IF ~HasError(state) THEN state
    ELSE LET corrected_sql == IF llm = LLMFailed THEN state.generated_sql ELSE llm
         IN IF corrected_sql # EmptySQL /\ corrected_sql # state.generated_sql
            THEN [state EXCEPT !.retry_count = @ + 1,
                               !.generated_sql = corrected_sql,
                               !.sql_error = ""]
            ELSE [state EXCEPT !.retry_count = @ + 1]

\* node 8
finalize_response(state) ==
    LET answer ==
          IF state.final_answer.kind # "" THEN state.final_answer
          ELSE IF state.sql_error # "" THEN [NoAnswer EXCEPT !.kind = "error"]
          ELSE IF state.generated_sql # EmptySQL
               THEN [NoAnswer EXCEPT !.kind = "generated, not executed"]
          ELSE [NoAnswer EXCEPT !.kind = "could not handle"]
    IN [state EXCEPT !.final_answer =
          IF state.sql_execution_result.kind # "none" /\ state.sql_execution_result.success
          THEN [answer EXCEPT !.stats = @ + 1] ELSE answer]

\* ------------------------------------------------------------------- routers
is_schema_query(state) ==
    IF state.parsed_intent.action = "describe" THEN "schema_query" ELSE "data_query"

should_require_human_approval(state) ==
    IF state.requires_human_approval /\ ~state.human_approved
    THEN "require_approval" ELSE "continue_execution"

\* should_retry_sql without the comparison of retry_count with max_retries
should_retry_sql_without_limit(state) ==
    IF HasError(state) THEN "retry" ELSE "continue"

should_retry_sql(state) ==
    IF HasError(state) /\ state.retry_count < state.max_retries
    THEN "retry" ELSE "continue"

\* the edges of check_approval leading to execute_sql whatever the state
approval_edge_always_approved(state) == "approved"

\* the lambda on the edges of check_approval
approval_edge(state) == IF state.human_approved THEN "approved" ELSE "waiting"

\* ======================================================= log-analysis agent
\* What UniversalLogParser.parse makes of the input: the header line matches
\* the C++ pattern (source location found), the Java pattern (exception class
\* found), or neither
LogInputs == {"cpp log", "java log", "free text"}

NoParsedInfo == [log_type |-> "", summary |-> FALSE, error_code |-> "",
                 component |-> "", exception_class |-> FALSE]

\* What analyze puts into initial_state["max_retries"]
LogMaxRetries == 1

\* The keys analyze passes and the ones the nodes write
DefaultLogState(sid) ==
    [session_id |-> sid,
     user_input |-> "",
     parsed_info |-> NoParsedInfo,
     log_type |-> "",
     search_queries |-> 0,
     retrieval_context |-> "",
     candidate_answer |-> 0,
     evaluation_result |-> "",
     final_answer |-> 0,
     retry_count |-> 0,
     max_retries |-> LogMaxRetries]

\* node 1 of the log graph
preprocess_and_parse(state) ==
    LET parsed_info ==
          CASE state.user_input = "cpp log" ->
                 [log_type |-> "CPP_BIZ_LOG", summary |-> TRUE, error_code |-> "120",
                  component |-> "src/trans_ctrl_impl.cpp:1545", exception_class |-> FALSE]
            [] state.user_input = "java log" ->
                 [log_type |-> "JAVA_ERROR_LOG", summary |-> TRUE, error_code |-> "N/A",
                  component |-> "com.xxx.Log", exception_class |-> TRUE]
            [] OTHER ->
                 [log_type |-> "UNKNOWN", summary |-> TRUE, error_code |-> "UNKNOWN",
                  component |-> "", exception_class |-> FALSE]
    IN [state EXCEPT !.parsed_info = parsed_info, !.log_type = parsed_info.log_type]

\* node 2: the number of queries kept, unique_queries[:3]
expand_search_queries(state) ==
    LET parsed == state.parsed_info
        n == (IF parsed.summary THEN 1 ELSE 0)
             + (IF parsed.error_code \notin {"", "N/A", "UNKNOWN"} THEN 1 ELSE 0)
             + (IF parsed.component \notin {"", "UNKNOWN"} THEN 1 ELSE 0)
             + (IF parsed.exception_class THEN 1 ELSE 0)
    IN [state EXCEPT !.search_queries = Min(n, 3)]

\* node 3; found: some query brought a usable result
retrieve_multi_source(state, found) ==
    [state EXCEPT !.retrieval_context =
       IF state.search_queries > 0 /\ found THEN "results" ELSE "nothing relevant"]

\* node 4: the first version of the report
generate_candidate_solution(state) == [state EXCEPT !.candidate_answer = 1]

\* What the evaluator's reply may be: a JSON object with passed true or false,
\* a reply json.loads rejects (or a failed call), or JSON that is not an object
EvalOutcomes == {"passed", "not passed", "call failed", "not an object"}

\* node 5, for the replies it returns on
evaluate_solution(state, outcome) ==
    [state EXCEPT !.evaluation_result =
       IF outcome \in {"passed", "call failed"} THEN "passed" ELSE "not passed"]

\* node 6
rewrite_solution(state) ==
    [state EXCEPT !.retry_count = @ + 1, !.candidate_answer = @ + 1]

\* node 7
finalize_output(state) == [state EXCEPT !.final_answer = state.candidate_answer]

check_evaluation(state) ==
    IF state.evaluation_result = "passed" THEN "approved"
    ELSE IF state.retry_count >= state.max_retries THEN "max_retries"
    ELSE "rewrite"

\* ================================================================= QA agent
\* The questions followed: one without attachment, one that names a URL
QaInputs == {"plain question", "question with url"}

\* common/constant.py
MAX_RETRY_COUNT == 3

\* initial_state of FinancialQAAssistant.ask.  messages and saved count what
\* postprocess_output appended to the history and wrote to the memory
DefaultQaState(sid) ==
    [session_id |-> sid,
     user_input |-> "",
     url_content |-> FALSE,
     processed_input |-> "",
     context |-> "",
     question_compliance |-> "",
     skip_subsequent |-> FALSE,
     question_type |-> "",
     retrieval_result |-> "",
     answer |-> "",
     answer_validated |-> "",
     retry_count |-> 0,
     messages |-> 0,
     saved |-> 0]

\* node preprocess
preprocess(state) ==
    [state EXCEPT !.url_content = (state.user_input = "question with url"),
                  !.processed_input = "question"]

\* What the compliance model may reply
ComplianceReplies == {"violation", "compliant"}

\* node check_sensitive_question, for a call of the compliance model that
\* returned
check_sensitive_question(state, reply) ==
    IF reply = "violation"
    THEN [state EXCEPT !.question_compliance = reply,
                       !.answer = "refusal",
                       !.skip_subsequent = TRUE]
    ELSE [state EXCEPT !.question_compliance = reply]

\* node summarize, for a model call that returned (it is made only when there
\* is URL or file content)
summarize_input(state) ==
    [state EXCEPT !.context = IF state.url_content THEN "summary" ELSE state.processed_input]

\* node classify; reply: whether the model's answer contains "business"
type_classification(state, business) ==
    [state EXCEPT !.question_type = IF business THEN "business" ELSE "general"]

\* What the retriever may return: nothing, a fragment under 50 characters, or
\* a usable context
Retrievals == {"", "fragment", "context"}

\* node retrieve
retrieve_context(state, retrieved) == [state EXCEPT !.retrieval_result = retrieved]

\* node answer_business; the node catches a failed model call itself
answer_business_question(state, modelOk) ==
    IF modelOk THEN [state EXCEPT !.answer = "generated"]
    ELSE [state EXCEPT !.answer = "failure notice", !.answer_validated = "false"]

\* node answer_general, for a model call that returned
answer_general_question(state) == [state EXCEPT !.answer = "generated"]

\* node validate, for a model call that returned; passed: the reply contains
\* the pass word
validate_answer(state, passed) ==
    IF passed THEN [state EXCEPT !.answer_validated = "true"]
    ELSE [state EXCEPT !.answer_validated = "false", !.retry_count = @ + 1]

\* node postprocess
postprocess_output(state) ==
    [state EXCEPT !.messages = @ + 2, !.saved = @ + 1, !.user_input = ""]

\* node handle_retrieve_empty
handle_retrieve_empty(state) == [state EXCEPT !.answer = "no information"]

\* the compliance edge continuing whatever the check marked
compliance_edge_always_continue(state) == "continue"

\* the lambda on the edges of check_sensitive_question
compliance_edge(state) == IF state.skip_subsequent THEN "skip" ELSE "continue"

\* validate_branch treating an exhausted answer as validated
validate_branch_keeps_exhausted(state) ==
    IF state.answer_validated = "true" THEN "validated"
    ELSE IF state.retry_count < MAX_RETRY_COUNT THEN "retry_" \o state.question_type
    ELSE "validated"

validate_branch(state) ==
    IF state.answer_validated = "true" THEN "validated"
    ELSE IF state.retry_count < MAX_RETRY_COUNT THEN "retry_" \o state.question_type
    ELSE "max_retry"

retrieve_branch(state) ==
    IF state.retrieval_result \in {"", "fragment"} THEN "empty" ELSE "normal"

\* ---------------------------------------------------------------- the agent
VARIABLES
    st,        \* thread id -> the state the checkpointer holds for the thread
    pc,        \* thread id -> the node the thread's run executes next, or how it ended
    queue,     \* agent.sql_executor.human_approval_queue
    executed,  \* thread id -> the call of SQLExecutor.execute_sql the thread's
               \* last step made, if it made one
    decide,    \* the approve_sql call whose graph run is in progress
    response,  \* the last approve_sql call that returned: what it returned, the
               \* index it was given and the length of the queue it left; none
               \* while a call is in progress
    lg,        \* thread id -> the state of the thread in the log-analysis graph
    lgpc,      \* thread id -> the node of the log-analysis graph the thread's
               \* run executes next, or how it ended
    qa,        \* thread id -> the state of the thread in the QA graph
    qapc       \* thread id -> the node of the QA graph the thread's run executes
               \* next, or how it ended

vars == <<st, pc, queue, executed, decide, response, lg, lgpc, qa, qapc>>
dbvars == <<st, pc, queue, executed, decide, response>>
logvars == <<lg, lgpc>>
qavars == <<qa, qapc>>

\* The log-analysis agent at rest
LogIdle ==
    /\ lg = [s \in Sessions |-> DefaultLogState(s)]
    /\ lgpc = [s \in Sessions |-> "idle"]

\* The QA assistant at rest
QaIdle ==
    /\ qa = [s \in Sessions |-> DefaultQaState(s)]
    /\ qapc = [s \in Sessions |-> "idle"]

Ended == {"idle", "finalized", "suspended"}
Running(s) == pc[s] \notin Ended
NoCallActive == ~decide.active /\ \A t \in Sessions : ~Running(t)

NotExecuted ==
    [invoked |-> FALSE, sql |-> EmptySQL, text |-> EmptySQL, valid |-> FALSE,
     requires |-> FALSE, approved |-> FALSE, via |-> "", ticket |-> EmptySQL]
NoDecide == [active |-> FALSE, index |-> -1, session |-> "", sql |-> EmptySQL]
NoResponse ==
    [success |-> FALSE, action |-> "none", sql |-> EmptySQL, index |-> -1, pending |-> 0]

Init ==
    /\ st = [s \in Sessions |-> DefaultState(s)]
    /\ pc = [s \in Sessions |-> "idle"]
    /\ queue = <<>>
    /\ executed = [s \in Sessions |-> NotExecuted]
    /\ decide = NoDecide
    /\ response = NoResponse
    /\ LogIdle
    /\ QaIdle

\* The initial_state dictionary of ask, written over the thread's checkpoint
InitialState(old, question, session_id) ==
    [old EXCEPT !.user_input = question, !.session_id = session_id,
                !.retry_count = 0, !.max_retries = MaxRetries]

\* DatabaseAgent.ask: app.invoke(initial_state, thread_id = session_id).
\* One thread is followed, through one ask: the graph's runs share no state
\* (the queue the nodes write is their own), and the state a checkpoint would
\* carry into a second ask of the thread is not followed.
Ask(s, question) ==
    /\ \A t \in Sessions : pc[t] = "idle"
    /\ NoCallActive
    /\ st' = [st EXCEPT ![s] = InitialState(st[s], question, s)]
    /\ pc' = [pc EXCEPT ![s] = "parse_intent"]
    /\ executed' = [executed EXCEPT ![s] = NotExecuted]
    /\ UNCHANGED <<queue, decide, response>>
    /\ UNCHANGED <<logvars, qavars>>

ParseIntentStep(s) ==
    /\ pc[s] = "parse_intent"
    /\ LET new == parse_user_intent(st[s]) IN
       /\ st' = [st EXCEPT ![s] = new]
       /\ pc' = [pc EXCEPT ![s] =
                   CASE is_schema_query(new) = "schema_query" -> "analyze_schema"
                     [] is_schema_query(new) = "data_query" -> "analyze_schema"]
    /\ executed' = [executed EXCEPT ![s] = NotExecuted]
    /\ UNCHANGED <<queue, decide, response>>
    /\ UNCHANGED <<logvars, qavars>>

AnalyzeSchemaStep(s) ==
    /\ pc[s] = "analyze_schema"
    /\ \E metaOk \in BOOLEAN :
         st' = [st EXCEPT ![s] = analyze_database_schema(st[s], metaOk)]
    /\ pc' = [pc EXCEPT ![s] = "generate_sql"]
    /\ executed' = [executed EXCEPT ![s] = NotExecuted]
    /\ UNCHANGED <<queue, decide, response>>
    /\ UNCHANGED <<logvars, qavars>>

GenerateSqlStep(s) ==
    /\ pc[s] = "generate_sql"
    /\ \E llm \in LLMOutcomes :
         st' = [st EXCEPT ![s] = generate_sql_query(st[s], llm)]
    /\ pc' = [pc EXCEPT ![s] = "validate_sql"]
    /\ executed' = [executed EXCEPT ![s] = NotExecuted]
    /\ UNCHANGED <<queue, decide, response>>
    /\ UNCHANGED <<logvars, qavars>>

ValidateSqlStep(s) ==
    /\ pc[s] = "validate_sql"
    /\ \E outcome \in ValidationOutcomes :
         LET new == validate_sql_statement(st[s], outcome) IN
         /\ st' = [st EXCEPT ![s] = new]
         /\ pc' = [pc EXCEPT ![s] =
                     IF should_require_human_approval(new) = "require_approval"
                     THEN "check_approval" ELSE "execute_sql"]
    /\ executed' = [executed EXCEPT ![s] = NotExecuted]
    /\ UNCHANGED <<queue, decide, response>>
    /\ UNCHANGED <<logvars, qavars>>

CheckApprovalStep(s) ==
    /\ pc[s] = "check_approval"
    /\ LET new == check_human_approval(st[s]) IN
       /\ st' = [st EXCEPT ![s] = new]
       /\ pc' = [pc EXCEPT ![s] =
                   IF approval_edge(new) = "approved" THEN "execute_sql" ELSE "suspended"]
    /\ executed' = [executed EXCEPT ![s] = NotExecuted]
    /\ UNCHANGED <<queue, decide, response>>
    /\ UNCHANGED <<logvars, qavars>>

\* What the executor was handed, and in which state of the session
Invocation(s, state) ==
    [invoked |-> TRUE,
     sql |-> state.generated_sql,
     text |-> ExecutedText(state.generated_sql),
     valid |-> state.sql_validation_result.kind # "empty"
               /\ state.sql_validation_result.is_valid,
     requires |-> state.requires_human_approval,
     approved |-> state.human_approved,
     via |-> IF decide.active /\ decide.session = s THEN "approve_sql" ELSE "ask",
     ticket |-> IF decide.active /\ decide.session = s THEN decide.sql ELSE EmptySQL]

ExecuteSqlStep(s) ==
    /\ pc[s] = "execute_sql"
    /\ \E dbOk \in BOOLEAN, tableRows \in TableSizes :
         LET new == execute_sql_query(st[s], dbOk, tableRows) IN
         /\ st' = [st EXCEPT ![s] = new]
         /\ pc' = [pc EXCEPT ![s] =
                     IF should_retry_sql(new) = "retry" THEN "self_correction" ELSE "finalize"]
    /\ executed' = [executed EXCEPT ![s] =
                      IF ExecutorInvoked(st[s]) THEN Invocation(s, st[s]) ELSE NotExecuted]
    /\ UNCHANGED <<queue, decide, response>>
    /\ UNCHANGED <<logvars, qavars>>

SelfCorrectionStep(s) ==
    /\ pc[s] = "self_correction"
    /\ \E llm \in LLMOutcomes :
         st' = [st EXCEPT ![s] = self_correction_loop(st[s], llm)]
    /\ pc' = [pc EXCEPT ![s] = "validate_sql"]
    /\ executed' = [executed EXCEPT ![s] = NotExecuted]
    /\ UNCHANGED <<queue, decide, response>>
    /\ UNCHANGED <<logvars, qavars>>

FinalizeStep(s) ==
    /\ pc[s] = "finalize"
    /\ st' = [st EXCEPT ![s] = finalize_response(st[s])]
    /\ pc' = [pc EXCEPT ![s] = "finalized"]
    /\ executed' = [executed EXCEPT ![s] = NotExecuted]
    /\ UNCHANGED <<queue, decide, response>>
    /\ UNCHANGED <<logvars, qavars>>

\* One node of the graph built by build_database_agent
Step(s) ==
    \/ ParseIntentStep(s)
    \/ AnalyzeSchemaStep(s)
    \/ GenerateSqlStep(s)
    \/ ValidateSqlStep(s)
    \/ CheckApprovalStep(s)
    \/ ExecuteSqlStep(s)
    \/ SelfCorrectionStep(s)
    \/ FinalizeStep(s)

\* ------------------------------------------------------------ approval queue
\* list.pop() without the index: the last item goes
PopLast(q, i) == SubSeq(q, 1, Len(q) - 1)

\* list.pop(i), i counted from 0
Pop(q, i) == SubSeq(q, 1, i) \o SubSeq(q, i + 2, Len(q))

\* SQLExecutor.add_to_approval_queue called on the agent's own executor with
\* the statement and state of a session that waits for a decision.  No node of
\* the graph makes this call (check_human_approval enqueues on an executor of
\* its own); it is the only way a ticket reaches the queue approve_sql reads.
EnqueueCall(s) ==
    /\ Len(queue) < MaxQueue
    /\ pc[s] = "suspended"
    /\ queue' = add_to_approval_queue(queue, st[s].generated_sql, st[s]).queue
    /\ UNCHANGED <<st, pc, executed, decide, response>>
    /\ UNCHANGED <<logvars, qavars>>

\* The call made while no other call of the agent is in progress
AddToApprovalQueue(s) == NoCallActive /\ EnqueueCall(s)

\* DatabaseAgent.get_pending_approvals
get_pending_approvals ==
    [i \in DOMAIN queue |->
       [index |-> i - 1, sql |-> queue[i].sql, session_id |-> queue[i].session_id]]

\* The state approve_sql invokes the graph with; the item's stored state is
\* updated in place
ApprovedState(snapshot) ==
    [snapshot EXCEPT !.human_approved = TRUE, !.requires_human_approval = FALSE]

\* approve_sql with an index outside the queue
ApproveInvalidIndex(approval_index) ==
    /\ NoCallActive
    /\ approval_index < 0 \/ approval_index >= Len(queue)
    /\ response' = [success |-> FALSE, action |-> "invalid index", sql |-> EmptySQL,
                    index |-> approval_index, pending |-> Len(queue)]
    /\ UNCHANGED <<st, pc, queue, executed, decide>>
    /\ UNCHANGED <<logvars, qavars>>

\* approve_sql(index, approve=True) up to app.invoke(approved_state, thread_id =
\* approved_state.session_id): the graph is entered at START with the state
\* of the ticket as its input.  One approved run is followed.
ApproveInvoke(approval_index) ==
    /\ NoCallActive
    /\ \A t \in Sessions : pc[t] \in {"idle", "suspended"}
    /\ approval_index >= 0 /\ approval_index < Len(queue)
    /\ LET approval_item == queue[approval_index + 1]
           approved_state == ApprovedState(approval_item.state)
           sid == approved_state.session_id
       IN /\ queue' = [queue EXCEPT ![approval_index + 1].state = approved_state]
          /\ st' = [st EXCEPT ![sid] = approved_state]
          /\ pc' = [pc EXCEPT ![sid] = "parse_intent"]
          /\ executed' = [executed EXCEPT ![sid] = NotExecuted]
          /\ decide' = [active |-> TRUE, index |-> approval_index,
                        session |-> sid, sql |-> approval_item.sql]
    /\ response' = NoResponse
    /\ UNCHANGED <<logvars, qavars>>

\* approve_sql(index, approve=True) after app.invoke returned: the ticket is
\* popped, then the answer is read from the result as result.final_answer.
\* ask reads the result of the same call as result_state["final_answer"]; the
\* graph library decides which of the two a result supports, so the read
\* either succeeds or raises into the except branch of approve_sql.
ApproveReturn ==
    /\ decide.active
    /\ ~Running(decide.session)
    /\ IF decide.index < Len(queue)
       THEN /\ queue' = Pop(queue, decide.index)
            /\ \E readable \in BOOLEAN :
                 response' =
                   IF readable
                   THEN [success |-> TRUE, action |-> "approved", sql |-> decide.sql,
                         index |-> decide.index, pending |-> Len(queue) - 1]
                   ELSE [success |-> FALSE, action |-> "exception", sql |-> EmptySQL,
                         index |-> decide.index, pending |-> Len(queue) - 1]
       ELSE \* pop raises IndexError into the except branch
            /\ queue' = queue
            /\ response' = [success |-> FALSE, action |-> "exception", sql |-> EmptySQL,
                            index |-> decide.index, pending |-> Len(queue)]
    /\ decide' = NoDecide
    /\ UNCHANGED <<st, pc, executed>>
    /\ UNCHANGED <<logvars, qavars>>

\* approve_sql(index, approve=False)
RejectCall(approval_index) ==
    /\ approval_index >= 0 /\ approval_index < Len(queue)
    /\ queue' = Pop(queue, approval_index)
    /\ response' = [success |-> TRUE, action |-> "rejected",
                    sql |-> queue[approval_index + 1].sql,
                    index |-> approval_index, pending |-> Len(queue) - 1]
    /\ UNCHANGED <<st, pc, executed, decide>>
    /\ UNCHANGED <<logvars, qavars>>

\* The call made while no other call of the agent is in progress
Reject(approval_index) == NoCallActive /\ RejectCall(approval_index)

\* The indexes a caller may pass: every position, and one off at either end
Indexes == -1 .. Len(queue)

\* The agent as it is wired: asks, and decisions on the agent's queue
Next ==
    \/ \E s \in Sessions, question \in Inputs : Ask(s, question)
    \/ \E s \in Sessions : Step(s)
    \/ \E i \in Indexes : ApproveInvalidIndex(i)

Spec == Init /\ [][Next]_vars

\* A call that was started runs to its end: ask is synchronous
SpecLive == Spec /\ WF_vars(\E s \in Sessions : Step(s))

\* ------------------------------------------------- decisions on queued tickets
\* The state in which ask(question) left thread s when its first pass generated
\* sql and stopped at check_approval
SuspendedState(s, question, sql, outcome) ==
    check_human_approval(
      validate_sql_statement(
        generate_sql_query(
          analyze_database_schema(
            parse_user_intent(InitialState(DefaultState(s), question, s)), TRUE),
          sql),
        outcome))

\* The statement each thread's ask left waiting: a plain insert, and a delete
\* that carries a deny-listed statement
GateQuestion(s) == IF s = "s1" THEN I_add ELSE I_query_delete
GateStatement(s) == IF s = "s1" THEN S_insert ELSE S_delete_drop

\* Every thread waits for a decision on the statement of its first pass
InitGate ==
    /\ st = [s \in Sessions |->
               SuspendedState(s, GateQuestion(s), GateStatement(s), "probe passed")]
    /\ pc = [s \in Sessions |-> "suspended"]
    /\ queue = <<>>
    /\ executed = [s \in Sessions |-> NotExecuted]
    /\ decide = NoDecide
    /\ response = NoResponse
    /\ LogIdle
    /\ QaIdle

\* The nodes a run started by approve_sql passes through (human_approved is
\* true in it, so validate_sql never routes to check_approval: NoApprovalNode)
GateStep(s) ==
    \/ ParseIntentStep(s)
    \/ AnalyzeSchemaStep(s)
    \/ GenerateSqlStep(s)
    \/ ValidateSqlStep(s)
    \/ ExecuteSqlStep(s)
    \/ SelfCorrectionStep(s)
    \/ FinalizeStep(s)

NextGate ==
    \/ \E s \in Sessions : GateStep(s)
    \/ \E s \in Sessions : AddToApprovalQueue(s)
    \/ \E i \in Indexes : ApproveInvalidIndex(i)
    \/ \E i \in Indexes : ApproveInvoke(i)
    \/ ApproveReturn
    \/ \E i \in Indexes : Reject(i)

SpecGate == InitGate /\ [][NextGate]_vars

SpecGateLive ==
    SpecGate /\ WF_vars(\E s \in Sessions : GateStep(s)) /\ WF_vars(ApproveReturn)

\* Calls from several threads: neither DatabaseAgent nor SQLExecutor holds a
\* lock, so an enqueue or a rejection may run between the statements of an
\* approve_sql call whose graph run is in progress
NextRace ==
    \/ \E s \in Sessions : GateStep(s)
    \/ \E s \in Sessions : EnqueueCall(s)
    \/ \E i \in Indexes : ApproveInvoke(i)
    \/ ApproveReturn
    \/ \E i \in Indexes : RejectCall(i)

SpecRace == InitGate /\ [][NextRace]_vars

NoApprovalNode == \A s \in Sessions : pc[s] # "check_approval"

\* ------------------------------------------------- the log-analysis graph
LogEnded == {"idle", "ended", "aborted in generate", "aborted in evaluate",
             "aborted in rewrite"}

\* LogAnalysisAgent.analyze: app.invoke(initial_state, thread_id = session_id).
\* One analysis of a thread is followed.
Analyze(s, log_content) ==
    /\ lgpc[s] = "idle"
    /\ lg' = [lg EXCEPT ![s] = [DefaultLogState(s) EXCEPT
                                  !.user_input = log_content,
                                  !.max_retries = LogMaxRetries,
                                  !.retry_count = 0]]
    /\ lgpc' = [lgpc EXCEPT ![s] = "preprocess"]
    /\ UNCHANGED <<dbvars, qavars>>

PreprocessAndParseStep(s) ==
    /\ lgpc[s] = "preprocess"
    /\ lg' = [lg EXCEPT ![s] = preprocess_and_parse(lg[s])]
    /\ lgpc' = [lgpc EXCEPT ![s] = "expand_query"]
    /\ UNCHANGED <<dbvars, qavars>>

ExpandQueryStep(s) ==
    /\ lgpc[s] = "expand_query"
    /\ lg' = [lg EXCEPT ![s] = expand_search_queries(lg[s])]
    /\ lgpc' = [lgpc EXCEPT ![s] = "retrieve"]
    /\ UNCHANGED <<dbvars, qavars>>

RetrieveMultiSourceStep(s) ==
    /\ lgpc[s] = "retrieve"
    /\ \E found \in BOOLEAN :
         lg' = [lg EXCEPT ![s] = retrieve_multi_source(lg[s], found)]
    /\ lgpc' = [lgpc EXCEPT ![s] = "generate"]
    /\ UNCHANGED <<dbvars, qavars>>

\* model.invoke is not inside a try: a failed call ends the run
GenerateCandidateStep(s) ==
    /\ lgpc[s] = "generate"
    /\ \E modelOk \in BOOLEAN :
         IF modelOk
         THEN /\ lg' = [lg EXCEPT ![s] = generate_candidate_solution(lg[s])]
              /\ lgpc' = [lgpc EXCEPT ![s] = "evaluate"]
         ELSE /\ lg' = lg
              /\ lgpc' = [lgpc EXCEPT ![s] = "aborted in generate"]
    /\ UNCHANGED <<dbvars, qavars>>

\* The try of evaluate_solution ends with json.loads; eval_result.get in the
\* line after it raises AttributeError when the JSON is not an object
EvaluateStep(s) ==
    /\ lgpc[s] = "evaluate"
    /\ \E outcome \in EvalOutcomes :
         IF outcome = "not an object"
         THEN /\ lg' = lg
              /\ lgpc' = [lgpc EXCEPT ![s] = "aborted in evaluate"]
         ELSE LET new == evaluate_solution(lg[s], outcome) IN
              /\ lg' = [lg EXCEPT ![s] = new]
              /\ lgpc' = [lgpc EXCEPT ![s] =
                            CASE check_evaluation(new) = "approved" -> "finalize"
                              [] check_evaluation(new) = "rewrite" -> "rewrite"
                              [] check_evaluation(new) = "max_retries" -> "finalize"]
    /\ UNCHANGED <<dbvars, qavars>>

\* retry_count is incremented before the model call, which is not inside a try
RewriteStep(s) ==
    /\ lgpc[s] = "rewrite"
    /\ \E modelOk \in BOOLEAN :
         IF modelOk
         THEN /\ lg' = [lg EXCEPT ![s] = rewrite_solution(lg[s])]
              /\ lgpc' = [lgpc EXCEPT ![s] = "evaluate"]
         ELSE /\ lg' = lg
              /\ lgpc' = [lgpc EXCEPT ![s] = "aborted in rewrite"]
    /\ UNCHANGED <<dbvars, qavars>>

FinalizeOutputStep(s) ==
    /\ lgpc[s] = "finalize"
    /\ lg' = [lg EXCEPT ![s] = finalize_output(lg[s])]
    /\ lgpc' = [lgpc EXCEPT ![s] = "ended"]
    /\ UNCHANGED <<dbvars, qavars>>

\* One node of the graph built by build_enterprise_log_agent
LogStep(s) ==
    \/ PreprocessAndParseStep(s)
    \/ ExpandQueryStep(s)
    \/ RetrieveMultiSourceStep(s)
    \/ GenerateCandidateStep(s)
    \/ EvaluateStep(s)
    \/ RewriteStep(s)
    \/ FinalizeOutputStep(s)

NextLog ==
    \/ \E s \in Sessions, log_content \in LogInputs : Analyze(s, log_content)
    \/ \E s \in Sessions : LogStep(s)

SpecLog == Init /\ [][NextLog]_vars

\* --------------------------------------------------------------- the QA graph
QaEnded == {"idle", "ended", "aborted"}

\* FinancialQAAssistant.ask: app.invoke(initial_state, thread_id = session_id).
\* One question of a thread is followed.
QaAsk(s, question) ==
    /\ qapc[s] = "idle"
    /\ qa' = [qa EXCEPT ![s] = [DefaultQaState(s) EXCEPT !.user_input = question]]
    /\ qapc' = [qapc EXCEPT ![s] = "preprocess"]
    /\ UNCHANGED <<dbvars, logvars>>

PreprocessStep(s) ==
    /\ qapc[s] = "preprocess"
    /\ qa' = [qa EXCEPT ![s] = preprocess(qa[s])]
    /\ qapc' = [qapc EXCEPT ![s] = "check_sensitive_question"]
    /\ UNCHANGED <<dbvars, logvars>>

\* When the compliance model call raises, the except branch reads
\* state["processed_question"], a key the state does not have: the KeyError
\* leaves the node and ends the run
CheckSensitiveQuestionStep(s) ==
    /\ qapc[s] = "check_sensitive_question"
    /\ \E modelOk \in BOOLEAN, reply \in ComplianceReplies :
         IF modelOk
         THEN LET new == check_sensitive_question(qa[s], reply) IN
              /\ qa' = [qa EXCEPT ![s] = new]
              /\ qapc' = [qapc EXCEPT ![s] =
                            IF compliance_edge(new) = "skip" THEN "postprocess"
                            ELSE "summarize"]
         ELSE /\ qa' = qa
              /\ qapc' = [qapc EXCEPT ![s] = "aborted"]
    /\ UNCHANGED <<dbvars, logvars>>

\* The model call of a node that is not inside a try: it returns, or the run
\* ends with the exception
SummarizeStep(s) ==
    /\ qapc[s] = "summarize"
    /\ \E modelOk \in BOOLEAN :
         IF modelOk \/ ~qa[s].url_content
         THEN /\ qa' = [qa EXCEPT ![s] = summarize_input(qa[s])]
              /\ qapc' = [qapc EXCEPT ![s] = "classify"]
         ELSE /\ qa' = qa
              /\ qapc' = [qapc EXCEPT ![s] = "aborted"]
    /\ UNCHANGED <<dbvars, logvars>>

ClassifyStep(s) ==
    /\ qapc[s] = "classify"
    /\ \E modelOk \in BOOLEAN, business \in BOOLEAN :
         IF modelOk
         THEN LET new == type_classification(qa[s], business) IN
              /\ qa' = [qa EXCEPT ![s] = new]
              /\ qapc' = [qapc EXCEPT ![s] =
                            IF new.question_type = "business" THEN "retrieve"
                            ELSE "answer_general"]
         ELSE /\ qa' = qa
              /\ qapc' = [qapc EXCEPT ![s] = "aborted"]
    /\ UNCHANGED <<dbvars, logvars>>

RetrieveStep(s) ==
    /\ qapc[s] = "retrieve"
    /\ \E retrieved \in Retrievals :
         LET new == retrieve_context(qa[s], retrieved) IN
         /\ qa' = [qa EXCEPT ![s] = new]
         /\ qapc' = [qapc EXCEPT ![s] =
                       IF retrieve_branch(new) = "empty" THEN "handle_retrieve_empty"
                       ELSE "answer_business"]
    /\ UNCHANGED <<dbvars, logvars>>

HandleRetrieveEmptyStep(s) ==
    /\ qapc[s] = "handle_retrieve_empty"
    /\ qa' = [qa EXCEPT ![s] = handle_retrieve_empty(qa[s])]
    /\ qapc' = [qapc EXCEPT ![s] = "ended"]
    /\ UNCHANGED <<dbvars, logvars>>

AnswerBusinessStep(s) ==
    /\ qapc[s] = "answer_business"
    /\ \E modelOk \in BOOLEAN :
         qa' = [qa EXCEPT ![s] = answer_business_question(qa[s], modelOk)]
    /\ qapc' = [qapc EXCEPT ![s] = "validate"]
    /\ UNCHANGED <<dbvars, logvars>>

AnswerGeneralStep(s) ==
    /\ qapc[s] = "answer_general"
    /\ \E modelOk \in BOOLEAN :
         IF modelOk
         THEN /\ qa' = [qa EXCEPT ![s] = answer_general_question(qa[s])]
              /\ qapc' = [qapc EXCEPT ![s] = "validate"]
         ELSE /\ qa' = qa
              /\ qapc' = [qapc EXCEPT ![s] = "aborted"]
    /\ UNCHANGED <<dbvars, logvars>>

ValidateAnswerStep(s) ==
    /\ qapc[s] = "validate"
    /\ \E modelOk \in BOOLEAN, passed \in BOOLEAN :
         IF modelOk
         THEN LET new == validate_answer(qa[s], passed) IN
              /\ qa' = [qa EXCEPT ![s] = new]
              /\ qapc' = [qapc EXCEPT ![s] =
                            CASE validate_branch(new) = "validated" -> "postprocess"
                              [] validate_branch(new) = "retry_business" -> "retrieve"
                              [] validate_branch(new) = "retry_general" -> "answer_general"
                              [] validate_branch(new) = "max_retry" -> "ended"]
         ELSE /\ qa' = qa
              /\ qapc' = [qapc EXCEPT ![s] = "aborted"]
    /\ UNCHANGED <<dbvars, logvars>>

PostprocessStep(s) ==
    /\ qapc[s] = "postprocess"
    /\ qa' = [qa EXCEPT ![s] = postprocess_output(qa[s])]
    /\ qapc' = [qapc EXCEPT ![s] = "ended"]
    /\ UNCHANGED <<dbvars, logvars>>

\* One node of the graph built by build_financial_agent
QaStep(s) ==
    \/ PreprocessStep(s)
    \/ CheckSensitiveQuestionStep(s)
    \/ SummarizeStep(s)
    \/ ClassifyStep(s)
    \/ RetrieveStep(s)
    \/ HandleRetrieveEmptyStep(s)
    \/ AnswerBusinessStep(s)
    \/ AnswerGeneralStep(s)
    \/ ValidateAnswerStep(s)
    \/ PostprocessStep(s)

NextQa ==
    \/ \E s \in Sessions, question \in QaInputs : QaAsk(s, question)
    \/ \E s \in Sessions : QaStep(s)

SpecQa == Init /\ [][NextQa]_vars

\* A question that was asked is processed to its end: ask is synchronous
SpecQaLive == SpecQa /\ WF_vars(\E s \in Sessions : QaStep(s))

\* ===================================================================== claims
Mutating == {"INSERT", "UPDATE", "DELETE"}

\* The statement changes rows: its leading verb is INSERT, UPDATE or DELETE
Mutates(sql) == sql # EmptySQL /\ UpperTok(sql[1]) \in Mutating

\* The statement matches a pattern of the security deny-list
DenyListed(sql) == \E i \in DOMAIN dangerous_patterns : PatternMatches(dangerous_patterns[i], sql)

\* The states of a run in which the last ValidateSQL step lies behind and the
\* statement has not been rewritten since
AfterValidation == {"check_approval", "execute_sql", "self_correction", "finalize",
                    "finalized", "suspended"}

\* C1: the SQL Executor is invoked only in a state where validationResult.isValid
\* is true and (requiresApproval is false or humanApproved is true).
C1_ExecutorOnlyWhenValidAndCleared ==
    \A s \in Sessions :
      executed[s].invoked =>
        /\ executed[s].valid
        /\ ~executed[s].requires \/ executed[s].approved

\* C2: a statement that matches the security deny-list is validated as invalid
\* with a security error, and is never handed to the Executor.
C2_DenyListedNeverExecuted ==
    \A s \in Sessions :
      /\ ( /\ pc[s] \in AfterValidation
           /\ st[s].sql_validation_result.kind = "result"
           /\ DenyListed(st[s].generated_sql) )
         => /\ ~st[s].sql_validation_result.is_valid
            /\ \E i \in DOMAIN st[s].sql_validation_result.errors :
                 \E j \in DOMAIN dangerous_patterns :
                   st[s].sql_validation_result.errors[i] = dangerous_patterns[j]
      /\ executed[s].invoked => ~DenyListed(executed[s].sql)

\* C3: a statement whose kind is Insert, Update or Delete is never executed
\* unless humanApproved is true at the moment of execution.
C3_MutationExecutedOnlyIfApproved ==
    \A s \in Sessions :
      (executed[s].invoked /\ Mutates(executed[s].sql)) => executed[s].approved

\* C4: retryCount <= maxRetries in every reachable state of a session.
C4_RetryCountBounded ==
    \A s \in Sessions : st[s].retry_count <= st[s].max_retries

\* C4 witness: a run used its last retry
C4_RetriesExhausted ==
    \E s \in Sessions : st[s].retry_count = st[s].max_retries /\ pc[s] = "validate_sql"

MutationVerbs == {"add", "insert", "update", "delete", "zh_tianjia", "zh_charu",
                  "zh_gengxin", "zh_xiugai", "zh_shanchu"}

\* C6: for every user input that contains a mutation verb the Intent Extractor
\* yields action = Modify and requiresApproval = true, also when the input
\* contains query words.
C6_MutationVerbForcesModify ==
    \A s \in Sessions :
      (pc[s] \notin {"idle", "parse_intent"}
       /\ ContainsAny(Lower(st[s].user_input), MutationVerbs))
      => /\ st[s].parsed_intent.action = "modify"
         /\ st[s].parsed_intent.requires_human_approval

\* C7: for every input classified as Modify, requiresApproval is true when
\* the run ends (Finalize or Suspended).
C7_ModifyEndsRequiringApproval ==
    \A s \in Sessions :
      (pc[s] \in {"finalized", "suspended"} /\ st[s].parsed_intent.action = "modify")
      => st[s].requires_human_approval

C9_SuspendedRunHasTicket ==
    \A s \in Sessions :
      (pc[s] = "suspended" /\ st[s].requires_human_approval /\ ~st[s].human_approved)
      => \E i \in DOMAIN get_pending_approvals :
           /\ get_pending_approvals[i].session_id = s
           /\ get_pending_approvals[i].sql = st[s].generated_sql

\* C10: on decide(index, approve = true) humanApproved is set and the workflow
\* continues at Execute: ParseIntent, AnalyzeSchema and GenerateSQL are not run
\* again, and the statement executed is exactly the ticket's sql.
C10_ApprovalResumesAtExecute ==
    \A s \in Sessions :
      /\ (decide.active /\ decide.session = s)
         => /\ st[s].human_approved
            /\ pc[s] \notin {"parse_intent", "analyze_schema", "generate_sql"}
      /\ (executed[s].invoked /\ executed[s].via = "approve_sql")
         => executed[s].sql = executed[s].ticket

\* C11: once a decision has removed the ticket at an index, a repeated decision
\* on the same index (no ticket enqueued in between) does not consume a ticket:
\* it is neither a rejection nor the start of an approved run.
C11_RepeatedDecisionFails ==
    [][ \A i \in Indexes :
          (response.success /\ response.index = i /\ response.pending = Len(queue))
          => ~(Reject(i) \/ ApproveInvoke(i)) ]_vars

\* A step in which a call of approve_sql returns after it removed a ticket
DecisionEnds ==
    \/ decide.active /\ ~decide'.active
    \/ ~decide.active /\ ~decide'.active /\ Len(queue') < Len(queue)

C13_RejectionFinalizesSession ==
    [][ \A i \in Indexes :
          Reject(i)
          => LET sid == queue[i + 1].session_id IN
             /\ ~executed'[sid].invoked
             /\ pc'[sid] = "finalized"
             /\ st'[sid].final_answer.kind = "rejected" ]_vars

\* C14: an execution never returns more rows than the ceiling.
C14_RowsWithinCeiling ==
    \A s \in Sessions :
      (st[s].sql_execution_result.kind = "result" /\ st[s].sql_execution_result.success)
      => st[s].sql_execution_result.row_count <= RowCeiling

\* C15: every call of the Executor ends with a result; success is true exactly
\* when the result carries no error, and a failure's error is an engine
\* message that the node copies to sqlError.
C15_ExecutorCapturesFailure ==
    \A s \in Sessions :
      executed[s].invoked
      => LET r == st[s].sql_execution_result IN
         /\ r.kind = "result"
         /\ r.success <=> r.error = ""
         /\ ~r.success => st[s].sql_error = r.error

\* C15 witness: the database call of an execution failed
C15_ExecutionFailed ==
    \E s \in Sessions :
      /\ executed[s].invoked
      /\ ~st[s].sql_execution_result.success
      /\ st[s].sql_execution_result.error = "engine error"

\* C16: under any interleaving of calls, the ticket a decision in progress
\* read at its index is still the ticket at that index when the decision
\* removes it.
C16_DecisionKeepsItsTicket ==
    decide.active
    => /\ decide.index < Len(queue)
       /\ queue[decide.index + 1].session_id = decide.session
       /\ queue[decide.index + 1].sql = decide.sql

\* Validation reported a deny-list match for the statement of the session
SecurityViolation(s) ==
    /\ pc[s] \in AfterValidation
    /\ st[s].sql_validation_result.kind = "result"
    /\ DenyListed(st[s].generated_sql)
    /\ \E i \in DOMAIN st[s].sql_validation_result.errors,
          j \in DOMAIN dangerous_patterns :
         st[s].sql_validation_result.errors[i] = dangerous_patterns[j]

\* C17: once validation reported a deny-list match, the run does not enter
\* Self-Correction for the statement and creates no approval ticket for it.
C17_SecurityViolationBlocks ==
    \A s \in Sessions :
      SecurityViolation(s)
      => /\ pc[s] # "self_correction"
         /\ st[s].final_answer.kind # "waiting for approval"

\* The leading verb of the statement is CREATE, ALTER or DROP
IsDDL(sql) == sql # EmptySQL /\ UpperTok(sql[1]) \in {"CREATE", "ALTER", "DROP"}

\* C18: every DDL statement is validated as invalid with a security error, and
\* no DDL statement is executed.
C18_DDLBlocked ==
    \A s \in Sessions :
      /\ ( /\ pc[s] \in AfterValidation
           /\ st[s].sql_validation_result.kind = "result"
           /\ IsDDL(st[s].generated_sql) )
         => /\ ~st[s].sql_validation_result.is_valid
            /\ \E i \in DOMAIN st[s].sql_validation_result.errors,
                  j \in DOMAIN dangerous_patterns :
                 st[s].sql_validation_result.errors[i] = dangerous_patterns[j]
      /\ executed[s].invoked => ~IsDDL(executed[s].sql)

\* C19: a run that ends with its error uncorrected has made exactly maxRetries
\* Self-Correction passes, has sqlError set and an answer describing the failure.
C19_ExhaustedRunReportsFailure ==
    \A s \in Sessions :
      (pc[s] = "finalized" /\ HasError(st[s]))
      => /\ st[s].retry_count = st[s].max_retries
         /\ st[s].sql_error # ""
         /\ st[s].final_answer.kind = "error"

\* C20: a run finalized after a failure (sqlError set, or the last execution
\* unsuccessful) has an answer that describes the failure.
C20_FailureAnswerDescribesFailure ==
    \A s \in Sessions :
      ( /\ pc[s] = "finalized"
        /\ \/ st[s].sql_error # ""
           \/ /\ st[s].sql_execution_result.kind = "result"
              /\ ~st[s].sql_execution_result.success )
      => st[s].final_answer.kind = "error"

\* C21: an Execute step whose execution succeeded is followed by Finalize, never
\* by another Self-Correction pass, whatever error or validation state earlier
\* steps left behind.
C21_SuccessGoesToFinalize ==
    \A s \in Sessions :
      (executed[s].invoked /\ st[s].sql_execution_result.success)
      => pc[s] = "finalize"

\* The intent of the session's question is to describe the schema
Describes(s) == st[s].parsed_intent.action = "describe"

\* What a Describe run never does: no statement, no validation, no
\* execution, no approval node and ticket answer, no correction
NoSqlWork(s) ==
    /\ st[s].generated_sql = EmptySQL
    /\ st[s].sql_validation_result.kind = "empty"
    /\ st[s].sql_execution_result.kind = "none"
    /\ ~executed[s].invoked
    /\ pc[s] \notin {"check_approval", "suspended", "self_correction"}
    /\ st[s].final_answer.kind # "waiting for approval"

C24_ValidationFrame ==
    [][ \A s \in Sessions :
          ValidateSqlStep(s)
          => /\ st'[s] = [st[s] EXCEPT
                            !.sql_validation_result = st'[s].sql_validation_result,
                            !.requires_human_approval = st'[s].requires_human_approval]
             /\ st'[s].human_approved = st[s].human_approved
             /\ st'[s].retry_count = st[s].retry_count
             /\ st'[s].generated_sql = st[s].generated_sql
             /\ queue' = queue
             /\ \A t \in Sessions \ {s} : st'[t] = st[t] ]_vars

C24_ValidatedWhileApproved ==
    \E s \in Sessions :
      /\ pc[s] = "execute_sql"
      /\ st[s].human_approved
      /\ st[s].retry_count >= 1
      /\ st[s].sql_validation_result.kind = "result"
      /\ Len(queue) >= 1

\* C25: every Self-Correction pass entered with an error and retryCount below
\* maxRetries adds exactly one to retryCount and leaves sqlError empty, also
\* when the corrected statement equals the previous one.
C25_CorrectionCountsAndClears ==
    [][ \A s \in Sessions :
          (SelfCorrectionStep(s) /\ HasError(st[s])
             /\ st[s].retry_count < st[s].max_retries)
          => /\ st'[s].retry_count = st[s].retry_count + 1
             /\ st'[s].sql_error = "" ]_vars

\* C26: after ValidateSQL the run goes to CheckApproval exactly when
\* requiresApproval is true and humanApproved is false, and to Execute
\* otherwise; CheckApproval with humanApproved false ends the run suspended,
\* not in Execute or Finalize.
C26_ApprovalRouting ==
    [][ \A s \in Sessions :
          /\ ValidateSqlStep(s)
             => /\ pc'[s] \in {"check_approval", "execute_sql"}
                /\ pc'[s] = "check_approval"
                     <=> (st'[s].requires_human_approval /\ ~st'[s].human_approved)
          /\ (CheckApprovalStep(s) /\ ~st[s].human_approved)
             => /\ pc'[s] = "suspended"
                /\ ~executed'[s].invoked
                /\ st'[s].sql_execution_result = st[s].sql_execution_result ]_vars

C26_SuspendedWaiting ==
    \E s \in Sessions :
      /\ pc[s] = "suspended"
      /\ st[s].requires_human_approval /\ ~st[s].human_approved
      /\ st[s].final_answer.kind = "waiting for approval"
      /\ st[s].sql_execution_result.kind = "none"

\* The validation result and requirement the session holds are those of the
\* statement it holds now
FreshlyValidated(s) ==
    \E outcome \in ValidationOutcomes :
      LET v == validate_sql(st[s].generated_sql, st[s].sql_type, outcome = "probe passed")
      IN /\ st[s].sql_validation_result = v
         /\ st[s].requires_human_approval = v.requires_human_approval

\* C27: a statement that reaches CheckApproval or Execute, corrected ones
\* included, carries the validation result and requiresApproval of that very
\* statement, never those of the statement it replaced; the executor is only
\* handed a statement validated in this way.
C27_CorrectedStatementRevalidated ==
    /\ \A s \in Sessions :
         (pc[s] \in {"check_approval", "execute_sql"} /\ st[s].generated_sql # EmptySQL)
         => FreshlyValidated(s)
    /\ \A s \in Sessions :
         executed[s].invoked
         => \E outcome \in ValidationOutcomes :
              st[s].sql_validation_result
                = validate_sql(executed[s].sql, st[s].sql_type, outcome = "probe passed")

\* The first attempt failed, the correction replaced the statement (the error
\* is cleared) and the new statement stands validated before Execute
C27_CorrectedStatementAtExecute ==
    \E s \in Sessions :
      /\ pc[s] = "execute_sql"
      /\ st[s].retry_count = 1
      /\ st[s].sql_execution_result.kind = "result"
      /\ ~st[s].sql_execution_result.success
      /\ st[s].sql_error = ""
      /\ st[s].sql_validation_result.is_valid

\* C28 (counting): retryCount changes only by a Self-Correction pass, which adds
\* exactly one, and by the start of a run by ask, which sets it to zero; so at
\* the end of a run it is the number of passes of the run.
C28_RetryCountCountsPasses ==
    [][ \A s \in Sessions :
          /\ SelfCorrectionStep(s) => st'[s].retry_count = st[s].retry_count + 1
          /\ (\E question \in Inputs : Ask(s, question)) => st'[s].retry_count = 0
          /\ (~SelfCorrectionStep(s) /\ ~\E question \in Inputs : Ask(s, question))
             => st'[s].retry_count = st[s].retry_count ]_vars

\* C28: retryCount is the number of passes, and when the first correction
\* validates and executes successfully the run finalizes with retryCount 1.
C28_FirstCorrectionSucceedsThenFinalize ==
    \A s \in Sessions :
      ( /\ st[s].retry_count = 1
        /\ executed[s].invoked
        /\ st[s].sql_execution_result.success
        /\ st[s].sql_validation_result.is_valid )
      => pc[s] = "finalize"

\* C29: the session snapshot of a ticket is a point-in-time copy: while the
\* ticket stays in the queue no operation, a decide call included, changes it.
C29_SnapshotImmutable ==
    [][ Len(queue') >= Len(queue)
        => \A i \in DOMAIN queue : queue'[i].state = queue[i].state ]_vars

\* C30: the Validator declares requiresApproval for every statement whose
\* leading verb is INSERT, UPDATE or DELETE, also when its text contains the
\* word SELECT.
C30_MutationRequiresApproval ==
    \A s \in Sessions :
      ( /\ pc[s] \in AfterValidation
        /\ st[s].sql_validation_result.kind = "result"
        /\ Mutates(st[s].generated_sql) )
      => st[s].sql_validation_result.requires_human_approval

\* No statement the engine could run: nothing, or the bare terminator
Unusable(sql) == sql \in {EmptySQL, S_blank}

\* C31: a failed synthesis (the model call raises, or returns nothing usable)
\* is recorded in sqlError by the GenerateSQL step and nothing is handed to the
\* executor for it.
C31_SynthesisFailureRecorded ==
    \A s \in Sessions :
      /\ ( /\ pc[s] \in {"validate_sql", "check_approval", "execute_sql"}
           /\ st[s].retry_count = 0
           /\ ~Describes(s)
           /\ Unusable(st[s].generated_sql) )
         => st[s].sql_error # ""
      /\ executed[s].invoked => ~Unusable(executed[s].sql)

\* C32: every mutating statement handed to the executor is, word for word, the
\* sql of the ticket whose approval started the run.
C32_ExecutedMutationIsApprovedTicket ==
    \A s \in Sessions :
      (executed[s].invoked /\ Mutates(executed[s].sql))
      => /\ executed[s].via = "approve_sql"
         /\ executed[s].approved
         /\ executed[s].ticket = executed[s].sql

\* An approve_sql call has just returned success false
DecideFailed ==
    /\ response' # response
    /\ response'.action \in {"invalid index", "exception"}
    /\ ~response'.success

\* C33: a decide call that returns success false leaves the approval queue as
\* it was: same tickets, same order, same sql and snapshot.
C33_FailedDecisionKeepsQueue ==
    [][ DecideFailed => queue' = queue ]_vars

\* C34: the ticket number a suspended run reports is the position at which
\* get_pending_approvals shows the ticket of that session.
C34_ReportedNumberIsQueuePosition ==
    \A s \in Sessions :
      (pc[s] = "suspended" /\ st[s].final_answer.kind = "waiting for approval")
      => LET n == st[s].final_answer.ticket
         IN /\ n + 1 \in DOMAIN get_pending_approvals
            /\ get_pending_approvals[n + 1].index = n
            /\ get_pending_approvals[n + 1].session_id = s

C36_RewritesBoundedNoEvaluateAbort ==
    \A s \in Sessions :
      /\ lg[s].retry_count <= lg[s].max_retries
      /\ lgpc[s] # "aborted in evaluate"

\* C36 (bound): at most max_retries rewrites in a run
C36_RewritesBounded ==
    \A s \in Sessions :
      /\ lg[s].retry_count <= lg[s].max_retries
      /\ lg[s].candidate_answer <= 1 + lg[s].max_retries

\* C37: in the QA workflow the validate/retry loop terminates: retry_count
\* never exceeds MAX_RETRY_COUNT, the run is over as soon as the count reaches
\* it, only an answer that passed validation (or a refusal) reaches postprocess,
\* the message history and the memory, and a run that is at validate ends.
C37_RetryBoundedUnvalidatedNotSaved ==
    \A s \in Sessions :
      /\ qa[s].retry_count <= MAX_RETRY_COUNT
      /\ qa[s].retry_count = MAX_RETRY_COUNT => qapc[s] = "ended"
      /\ (qapc[s] = "postprocess" \/ qa[s].messages > 0 \/ qa[s].saved > 0)
            => (qa[s].answer_validated = "true" \/ qa[s].skip_subsequent)

C37_ValidateRetryLoopTerminates ==
    /\ []C37_RetryBoundedUnvalidatedNotSaved
    /\ \A s \in Sessions :
         (qapc[s] = "validate") ~> (qapc[s] \in {"ended", "aborted"})

\* A run ended by the third failed validation, nothing appended or saved
C37_EndedAtMaxRetry ==
    \E s \in Sessions :
      /\ qapc[s] = "ended"
      /\ qa[s].retry_count = MAX_RETRY_COUNT
      /\ qa[s].answer_validated = "false"
      /\ qa[s].answer = "generated"
      /\ qa[s].messages = 0
      /\ qa[s].saved = 0

\* C38: a question the compliance check marked as a violation (skip_subsequent
\* true) is at postprocess or past it with the refusal as its answer; nothing
\* summarize, classify, retrieve, the answer nodes or validate would have
\* written is in its state.
C38_ViolationSkipsToPostprocess ==
    \A s \in Sessions :
      qa[s].skip_subsequent =>
        /\ qapc[s] \in {"postprocess", "ended"}
        /\ qa[s].question_compliance = "violation"
        /\ qa[s].answer = "refusal"
        /\ qa[s].context = ""
        /\ qa[s].question_type = ""
        /\ qa[s].retrieval_result = ""
        /\ qa[s].answer_validated = ""
        /\ qa[s].retry_count = 0

\* A refused question after postprocess
C38_RefusalPostprocessed ==
    \E s \in Sessions :
      /\ qa[s].skip_subsequent
      /\ qapc[s] = "ended"
      /\ qa[s].answer = "refusal"
      /\ qa[s].saved = 1
      /\ qa[s].messages = 2

====
